---- MODULE Spec2Model ----
(***************************************************************************)
(* Model of magpylib's vectorized field wrapper                            *)
(*   magpylib/_lib/fields/field_wrap_BH_v.py   (getBHv_level2, getBv,      *)
(*                                              getHv)                     *)
(* and of the Collection class                                             *)
(*   magpylib/_lib/obj_classes/class_Collection.py                         *)
(*                                                                         *)
(* A numpy array is a record [shape, flat]: its shape tuple and its        *)
(* elements in row-major order.  Floats are modelled by integers (the      *)
(* conversion np.array(x, dtype=float) keeps the value of every number     *)
(* used here).  A Python dict is a function whose DOMAIN is its key set.   *)
(***************************************************************************)
EXTENDS Integers, Sequences, FiniteSets, TLC

VARIABLES kwargs, res, refs, heap, last

vars == <<kwargs, res, refs, heap, last>>

-----------------------------------------------------------------------------
(* Bounds of the model *)

\* longest explicit batch (leading axis) among the inputs of a call
MaxLen == 2

\* most arguments given to one Collection operation
MaxArgs == 2

-----------------------------------------------------------------------------
(* numpy arrays *)

Arr(shape, flat) == [shape |-> shape, flat |-> flat]

\* ndarray.ndim
ndim(a) == Len(a.shape)

\* len(ndarray): the length of the leading axis
len(a) == a.shape[1]

\* the sequence s repeated n times
Repeat(s, n) == [i \in 1..(n * Len(s)) |-> s[((i - 1) % Len(s)) + 1]]

\* product of the entries of a shape from index i on
RECURSIVE Prod(_, _)
Prod(shape, i) == IF i > Len(shape) THEN 1 ELSE shape[i] * Prod(shape, i + 1)

\* the elements of entry i along the leading axis (a[i-1] in Python), flattened
Row(a, i) ==
    LET w == Prod(a.shape, 2)
    IN  SubSeq(a.flat, (i - 1) * w + 1, i * w)

\* np.tile(val, (n, 1)) for val of rank 0 or 1: n rows, each a copy of val
npTile(val, n) == Arr(<<n, Len(val.flat)>>, Repeat(val.flat, n))

\* np.array([val] * n) for val of rank 0: n copies of val
npArrayOfCopies(val, n) == Arr(<<n>> \o val.shape, Repeat(val.flat, n))

\* np.squeeze: every axis of length 1 is removed, the elements are kept
npSqueeze(a) == Arr(SelectSeq(a.shape, LAMBDA d : d # 1), a.flat)

-----------------------------------------------------------------------------
(* scipy Rotation: an object holding one unit quaternion (shape (4,)) or a *)
(* stack of them (shape (M,4))                                             *)

Isqrt(x) == CHOOSE r \in 0..x : r * r <= x /\ x < (r + 1) * (r + 1)

Norm2(q) == q[1] * q[1] + q[2] * q[2] + q[3] * q[3] + q[4] * q[4]

\* Rotation.from_quat: every quaternion is divided by its norm
from_quat(a) ==
    LET nrm(j) == Isqrt(Norm2(SubSeq(a.flat, ((j - 1) \div 4) * 4 + 1,
                                             ((j - 1) \div 4) * 4 + 4)))
    IN  [quat |-> Arr(a.shape, [j \in 1..Len(a.flat) |-> a.flat[j] \div nrm(j)])]

\* Rotation.as_quat
as_quat(rot) == rot.quat

-----------------------------------------------------------------------------
(* getBHv_level2 *)

SourceTypes == {"Box", "Cylinder", "Sphere", "Dipole", "Circular", "Line"}

\* tile_params entry: (input, tdim)
TP(val, tdim) == [val |-> val, tdim |-> tdim]

\* mutant of ClassKeys: the Sphere branch does not read 'diameter'
ClassKeysNoSphereDiameter(src_type) ==
    CASE src_type = "Box"      -> << <<"magnetization", 2>>, <<"dimension", 2>> >>
      [] src_type = "Cylinder" -> << <<"magnetization", 2>>, <<"dimension", 2>> >>
      [] src_type = "Sphere"   -> << <<"magnetization", 2>> >>
      [] src_type = "Dipole"   -> << <<"moment", 2>> >>
      [] src_type = "Circular" -> << <<"current", 1>>, <<"diameter", 1>> >>
      [] src_type = "Line"     -> << <<"current", 1>>, <<"segment_start", 2>>,
                                     <<"segment_end", 2>> >>
      [] OTHER                 -> << >>

\* the class specific inputs, in the order the code reads them, with the
\* declared rank tdim of each
ClassKeys(src_type) ==
    CASE src_type = "Box"      -> << <<"magnetization", 2>>, <<"dimension", 2>> >>
      [] src_type = "Cylinder" -> << <<"magnetization", 2>>, <<"dimension", 2>> >>
      [] src_type = "Sphere"   -> << <<"magnetization", 2>>, <<"diameter", 1>> >>
      [] src_type = "Dipole"   -> << <<"moment", 2>> >>
      [] src_type = "Circular" -> << <<"current", 1>>, <<"diameter", 1>> >>
      [] src_type = "Line"     -> << <<"current", 1>>, <<"segment_start", 2>>,
                                     <<"segment_end", 2>> >>
      [] OTHER                 -> << >>

\* the keys read with kwargs[...] inside the try block, in reading order
ReadKeys(kw) ==
    <<"source_type", "observer">> \o
    (IF "source_type" \in DOMAIN kw
        THEN [i \in 1..Len(ClassKeys(kw["source_type"])) |->
                  ClassKeys(kw["source_type"])[i][1]]
        ELSE << >>)

\* the key of the KeyError the try block raises: the first one read that is
\* not in kwargs ("" when there is none)
FirstMissing(kw) ==
    LET rk  == ReadKeys(kw)
        bad == {i \in 1..Len(rk) : rk[i] \notin DOMAIN kw}
    IN  IF bad = {} THEN ""
        ELSE rk[CHOOSE i \in bad : \A j \in bad : i <= j]

\* mutant of DefaultPosition: a default that is not the origin
DefaultPositionOffOrigin == Arr(<<3>>, <<0, 0, 1>>)

\* kwargs.get('position', (0,0,0))
DefaultPosition == Arr(<<3>>, <<0, 0, 0>>)

\* kwargs.get('orientation', R.from_quat((0,0,0,1)))
DefaultOrientation == from_quat(Arr(<<4>>, <<0, 0, 0, 1>>))

\* mutant of squeezeOf: the default is False
squeezeOfDefaultFalse(kw) == IF "squeeze" \in DOMAIN kw THEN kw["squeeze"] ELSE FALSE

\* kwargs.get('squeeze', True)
squeezeOf(kw) == IF "squeeze" \in DOMAIN kw THEN kw["squeeze"] ELSE TRUE

\* the dict tile_params at the end of the try block (no key missing)
tile_params(kw) ==
    LET ck   == ClassKeys(kw["source_type"])
        cset == {ck[i][1] : i \in 1..Len(ck)}
        td(k) == (CHOOSE i \in 1..Len(ck) : ck[i][1] = k)
    IN  [k \in {"observer", "position", "orientation"} \cup cset |->
            CASE k = "observer" -> TP(kw["observer"], 2)
              [] k = "position" ->
                    TP(IF "position" \in DOMAIN kw THEN kw["position"]
                                                   ELSE DefaultPosition, 2)
              [] k = "orientation" ->
                    TP(as_quat(IF "orientation" \in DOMAIN kw THEN kw["orientation"]
                                                              ELSE DefaultOrientation), 2)
              [] OTHER -> TP(kw[k], ck[td(k)][2])]

\* ns = [len(val) for val,tdim in tile_params.values() if val.ndim == tdim];
\* the code uses ns only through set(ns) and max(ns)
nsOf(tp) == {len(tp[k].val) : k \in {x \in DOMAIN tp : ndim(tp[x].val) = tp[x].tdim}}

\* mutant of BadLengths: the lengths are not compared
BadLengthsNever(ns) == FALSE

\* len(set(ns)) > 1
BadLengths(ns) == Cardinality(ns) > 1

\* mutant of nOf: max(ns, default=0)
nOfDefaultZero(ns) == IF ns = {} THEN 0 ELSE CHOOSE m \in ns : \A x \in ns : x <= m

\* n = max(ns, default=1)
nOf(ns) == IF ns = {} THEN 1 ELSE CHOOSE m \in ns : \A x \in ns : x <= m

\* one turn of the tiling loop: the value stored back into kwargs[key]
Tile(val, tdim, n) ==
    IF ndim(val) < tdim
        THEN IF tdim = 2 THEN npTile(val, n) ELSE npArrayOfCopies(val, n)
        ELSE val

\* kwargs as handed to getBH_level1: every key of tile_params replaced by
\* its tiled value, orientation turned back into a Rotation object
TiledKwargs(kw, tp, n) ==
    [k \in DOMAIN kw \cup DOMAIN tp |->
        IF k \in DOMAIN tp
            THEN IF k = "orientation"
                    THEN from_quat(Tile(tp[k].val, tp[k].tdim, n))
                    ELSE Tile(tp[k].val, tp[k].tdim, n)
            ELSE kw[k]]

-----------------------------------------------------------------------------
(* getBH_level1 (magpylib/_lib/fields/field_wrap_BH_level1.py): the frame   *)
(* transform and the kernel dispatch.  It receives N-row arrays and gives   *)
(* the field batch of shape (N,3); an unknown source_type is an error.  The *)
(* analytical kernels are not modelled: the batch holds the relative        *)
(* position observer - position of each instance.                           *)

\* element j of row i of a 2-d array, a row of width 1 broadcast
El(a, i, j) == a.flat[(i - 1) * a.shape[2] + (IF a.shape[2] = 1 THEN 1 ELSE j)]

\* the arrays are what the kernels are defined on: every one has the
\* declared rank and the same number of rows
KernelInputOk(kw, tp) ==
    /\ \A k \in DOMAIN tp :
          ndim(IF k = "orientation" THEN as_quat(kw[k]) ELSE kw[k]) = tp[k].tdim
    /\ \A k \in DOMAIN tp :
          len(IF k = "orientation" THEN as_quat(kw[k]) ELSE kw[k]) = len(kw["observer"])

getBH_level1(kw, tp) ==
    IF kw["source_type"] \notin SourceTypes
        THEN [status |-> "error", B |-> Arr(<< >>, << >>)]
    ELSE IF ~KernelInputOk(kw, tp)
        THEN [status |-> "undefined", B |-> Arr(<< >>, << >>)]
    ELSE LET N == len(kw["observer"])
         IN  [status |-> "ok",
              B |-> Arr(<<N, 3>>,
                        [x \in 1..(3 * N) |->
                            El(kw["observer"], ((x - 1) \div 3) + 1, ((x - 1) % 3) + 1)
                          - El(kw["position"], ((x - 1) \div 3) + 1, ((x - 1) % 3) + 1)])]

-----------------------------------------------------------------------------
(* the outcome of one call of getBHv_level2                                 *)
(*   outcome  "MissingInputKeys" | "BadArrayInputLengths"  (both a          *)
(*            MagpylibBadUserInput raised by getBHv_level2),                *)
(*            "Level1Error" (getBH_level1 raised), "Level1Undefined" (the   *)
(*            arrays handed over are outside the kernels' domain),          *)
(*            "returned"                                                    *)
(*   key      the key named by 'Missing input keys'                         *)
(*   lens     the set named by 'bad array input lengths'                    *)
(*   tiled    whether the tiling loop ran;  n  the batch length it used     *)
(*   called   whether getBH_level1 was invoked;  kw  the kwargs it got      *)
(*   ret      the array returned                                            *)

NoArr == Arr(<< >>, << >>)

Outcome(o, key, lens, tiled, n, called, kw, ret) ==
    [outcome |-> o, key |-> key, lens |-> lens, tiled |-> tiled, n |-> n,
     called |-> called, kw |-> kw, ret |-> ret]

NoCall == Outcome("none", "", {}, FALSE, 0, FALSE, << >>, NoArr)

getBHv_level2(kw) ==
    IF FirstMissing(kw) # ""
        THEN Outcome("MissingInputKeys", FirstMissing(kw), {}, FALSE, 0, FALSE,
                     << >>, NoArr)
    ELSE LET tp == tile_params(kw)
             ns == nsOf(tp)
         IN  IF BadLengths(ns)
                 THEN Outcome("BadArrayInputLengths", "", ns, FALSE, 0, FALSE,
                              << >>, NoArr)
             ELSE LET n  == nOf(ns)
                      kk == TiledKwargs(kw, tp, n)
                      r1 == getBH_level1(kk, tp)
                  IN  IF r1.status = "error"
                          THEN Outcome("Level1Error", "", ns, TRUE, n, TRUE, kk, NoArr)
                      ELSE IF r1.status = "undefined"
                          THEN Outcome("Level1Undefined", "", ns, TRUE, n, TRUE, kk, NoArr)
                      ELSE Outcome("returned", "", ns, TRUE, n, TRUE, kk,
                                   IF squeezeOf(kw) THEN npSqueeze(r1.B) ELSE r1.B)

-----------------------------------------------------------------------------
(* the inputs of a call *)

\* stands for "key not given" while the inputs are enumerated
NoArg == Arr(<<0>>, << >>)

\* an (m,3) batch with pairwise different rows: row i is (i, 2i, 3i)
BatchFlat(m) == [x \in 1..(3 * m) |-> (((x - 1) \div 3) + 1) * (((x - 1) % 3) + 1)]

\* inputs for a key of declared rank 2: a 3-vector (below the declared
\* rank), (m,3) batches (at it), an (m,1,3) array (above it)
Inputs2 ==
    {Arr(<<3>>, <<1, 2, 3>>)}
    \cup {Arr(<<m, 3>>, BatchFlat(m)) : m \in 1..MaxLen}
    \cup {Arr(<<MaxLen, 1, 3>>, BatchFlat(MaxLen))}

\* inputs for a key of declared rank 1: a scalar (below the declared rank),
\* (m,) batches (at it), an (m,1) array (above it)
Inputs1 ==
    {Arr(<< >>, <<5>>)}
    \cup {Arr(<<m>>, [i \in 1..m |-> 10 * i]) : m \in 1..MaxLen}
    \cup {Arr(<<MaxLen, 1>>, [i \in 1..MaxLen |-> 10 * i])}

\* unit quaternions: row i of a stack has its 1 in place ((i-1) % 4) + 1
QuatFlat(m) == [x \in 1..(4 * m) |-> IF ((x - 1) % 4) = (((x - 1) \div 4) % 4) THEN 1 ELSE 0]

\* Rotation objects: a single rotation, and stacks of m rotations
Rotations ==
    {from_quat(Arr(<<4>>, <<1, 0, 0, 0>>))}
    \cup {from_quat(Arr(<<m, 4>>, QuatFlat(m))) : m \in 1..MaxLen}

NoRot == [quat |-> NoArg]

InputsOf(ck, i) ==
    IF i > Len(ck) THEN {NoArg}
    ELSE (IF ck[i][2] = 2 THEN Inputs2 ELSE Inputs1) \cup {NoArg}

\* the keyword arguments a caller writes
MakeKwargs(st, obs, pos, rot, sq, c1, c2, c3) ==
    LET ck   == ClassKeys(st)
        cv   == <<c1, c2, c3>>
        keys == (IF st # "" THEN {"source_type"} ELSE {})
                \cup (IF obs # NoArg THEN {"observer"} ELSE {})
                \cup (IF pos # NoArg THEN {"position"} ELSE {})
                \cup (IF rot # NoRot THEN {"orientation"} ELSE {})
                \cup (IF sq # "" THEN {"squeeze"} ELSE {})
                \cup {ck[i][1] : i \in {j \in 1..Len(ck) : cv[j] # NoArg}}
    IN  [k \in keys |->
            CASE k = "source_type" -> st
              [] k = "observer"    -> obs
              [] k = "position"    -> pos
              [] k = "orientation" -> rot
              [] k = "squeeze"     -> (sq = "True")
              [] OTHER -> cv[CHOOSE i \in 1..Len(ck) : ck[i][1] = k]]

\* every call the model makes: any of the six source types, none, or an
\* unknown one; each general and class specific key given or not
CallInputs(kw) ==
    \E st \in SourceTypes \cup {"", "Ring"} :
    \E obs \in Inputs2 \cup {NoArg}, pos \in Inputs2 \cup {NoArg} :
    \E rot \in Rotations \cup {NoRot}, sq \in {"", "True", "False"} :
    \E c1 \in InputsOf(ClassKeys(st), 1), c2 \in InputsOf(ClassKeys(st), 2),
       c3 \in InputsOf(ClassKeys(st), 3) :
        kw = MakeKwargs(st, obs, pos, rot, sq, c1, c2, c3)

\* getBHv_level2(bh=..., **kwargs)
WithBh(kw, bh) == [k \in DOMAIN kw \cup {"bh"} |-> IF k = "bh" THEN bh ELSE kw[k]]

\* getBv(**kwargs)
getBv ==
    /\ res = NoCall
    /\ kwargs' = WithBh(kwargs, TRUE)
    /\ res' = getBHv_level2(kwargs')
    /\ UNCHANGED <<refs, heap, last>>

\* getHv(**kwargs)
getHv ==
    /\ res = NoCall
    /\ kwargs' = WithBh(kwargs, FALSE)
    /\ res' = getBHv_level2(kwargs')
    /\ UNCHANGED <<refs, heap, last>>

\* a caller about to make one call of getBv or getHv
Init ==
    /\ CallInputs(kwargs)
    /\ res = NoCall
    /\ refs = << >>
    /\ heap = << >>
    /\ last = << >>

Next == getBv \/ getHv

Spec == Init /\ [][Next]_vars

-----------------------------------------------------------------------------
(* Properties of getBHv_level2.  The vocabulary below restates the          *)
(* documented interface (getBv's docstring), not the code.                  *)

\* the mandatory class specific keys of each source type
MandatoryOf(st) ==
    CASE st \in {"Box", "Cylinder"} -> {"magnetization", "dimension"}
      [] st = "Sphere"              -> {"magnetization", "diameter"}
      [] st = "Dipole"              -> {"moment"}
      [] st = "Circular"            -> {"current", "diameter"}
      [] st = "Line"                -> {"current", "segment_start", "segment_end"}
      [] OTHER                      -> {}

\* the declared rank of a per-instance input
DeclaredRank(key) == IF key \in {"current", "diameter"} THEN 1 ELSE 2

\* the mandatory keys of a call, and whether one of them is absent
MandatoryKeys(kw) ==
    {"source_type", "observer"}
    \cup (IF "source_type" \in DOMAIN kw THEN MandatoryOf(kw["source_type"]) ELSE {})

MandatoryAbsent(kw) == \E k \in MandatoryKeys(kw) : k \notin DOMAIN kw

\* the per-instance keys of a call whose mandatory keys are all there
InstanceKeys(kw) ==
    {"observer", "position", "orientation"} \cup MandatoryOf(kw["source_type"])

\* the array a caller supplied under a key (a Rotation's quaternions)
Supplied(kw, k) == IF k = "orientation" THEN as_quat(kw[k]) ELSE kw[k]

\* the lengths of the inputs supplied as explicit batches
ExplicitLens(kw) ==
    {len(Supplied(kw, k)) :
        k \in {x \in InstanceKeys(kw) \cap DOMAIN kw :
                  ndim(Supplied(kw, x)) = DeclaredRank(x)}}

\* a call was made
Made == res.outcome # "none"

\* the call ended in a MagpylibBadUserInput raised while normalizing
BadUserInput == res.outcome \in {"MissingInputKeys", "BadArrayInputLengths"}

\* the array getBH_level1 received under a per-instance key
Passed(k) == Supplied(res.kw, k)

\* a has n entries along its leading axis, each equal to the elements of v
RowsAre(a, n, v) ==
    /\ ndim(a) >= 1
    /\ len(a) = n
    /\ \A i \in 1..n : Row(a, i) = v.flat

\* C1: a call in which source_type, observer or a parameter mandatory for
\* the source type is absent ends in the 'Missing input keys' error, the
\* error names a mandatory key that is absent, and getBH_level1 is not invoked.
C1_MissingKeyRejected ==
    (Made /\ MandatoryAbsent(kwargs)) =>
        /\ res.outcome = "MissingInputKeys"
        /\ res.key \in MandatoryKeys(kwargs)
        /\ res.key \notin DOMAIN kwargs
        /\ ~res.called

C1_Witness ==
    /\ res.outcome = "MissingInputKeys"
    /\ "source_type" \in DOMAIN kwargs
    /\ kwargs["source_type"] = "Sphere"
    /\ res.key = "diameter"
    /\ "magnetization" \in DOMAIN kwargs

\* C2: when no mandatory key is absent and the inputs given as explicit
\* batches do not all have the same length, the call ends in the 'bad array
\* input lengths' error, the error names the set of those lengths, and
\* getBH_level1 is not invoked.
C2_LengthMismatchRejected ==
    (Made /\ ~MandatoryAbsent(kwargs) /\ Cardinality(ExplicitLens(kwargs)) > 1) =>
        /\ res.outcome = "BadArrayInputLengths"
        /\ res.lens = ExplicitLens(kwargs)
        /\ ~res.tiled
        /\ ~res.called

C2_Witness ==
    /\ res.outcome = "BadArrayInputLengths"
    /\ res.lens = {1, 2}
    /\ ndim(kwargs["observer"]) = 2
    /\ "position" \in DOMAIN kwargs
    /\ ndim(kwargs["position"]) = 2
    /\ len(kwargs["observer"]) # len(kwargs["position"])

\* C3: a call whose source_type is not one of the six source types ends in
\* a bad-user-input error raised during normalization: nothing is tiled and
\* getBH_level1 is not invoked.
C3_UnknownTypeRejected ==
    (Made /\ "source_type" \in DOMAIN kwargs /\ kwargs["source_type"] \notin SourceTypes) =>
        /\ BadUserInput
        /\ ~res.tiled
        /\ ~res.called

\* C4: whenever getBH_level1 is invoked, every per-instance array it is
\* handed (observer, position, orientation, the class specific parameters)
\* has exactly N entries along its leading axis, whatever the rank of the
\* inputs.
C4_AllArraysHaveN ==
    res.called =>
        \A k \in InstanceKeys(kwargs) :
            /\ ndim(Passed(k)) >= 1
            /\ len(Passed(k)) = res.n

\* C5: when the explicit batch lengths agree, N is that common length, or 1
\* when there is no explicit batch; an input given below its declared rank
\* is handed over as N rows each equal to the value given; an input given at
\* its declared rank is handed over with the content given.
C5_BatchLengthAndTiling ==
    res.tiled =>
        /\ ExplicitLens(kwargs) = {}  => res.n = 1
        /\ ExplicitLens(kwargs) # {} => ExplicitLens(kwargs) = {res.n}
        /\ \A k \in InstanceKeys(kwargs) \cap DOMAIN kwargs :
              /\ ndim(Supplied(kwargs, k)) < DeclaredRank(k) =>
                    RowsAre(Passed(k), res.n, Supplied(kwargs, k))
              /\ ndim(Supplied(kwargs, k)) = DeclaredRank(k) =>
                    Passed(k) = Supplied(kwargs, k)

C5_Witness ==
    /\ res.outcome = "returned"
    /\ res.n = 2
    /\ "position" \in DOMAIN kwargs
    /\ ndim(kwargs["position"]) = 1
    /\ ndim(kwargs["observer"]) = 2
    /\ kwargs["source_type"] = "Circular"
    /\ ndim(kwargs["current"]) = 0
    /\ ndim(kwargs["diameter"]) = 1

\* the call of the current state made again with squeeze given as sq
Resqueezed(sq) ==
    getBHv_level2([k \in DOMAIN kwargs \cup {"squeeze"} |->
                      IF k = "squeeze" THEN sq ELSE kwargs[k]])

\* the call of the current state made again without the squeeze key
Unsqueezed == getBHv_level2([k \in DOMAIN kwargs \ {"squeeze"} |-> kwargs[k]])

\* C6: squeeze defaults to true and influences neither N nor the arrays
\* handed to getBH_level1; for N = 1 squeeze=True returns a 3-vector and
\* squeeze=False the (1,3) batch with the same elements; for N > 1 either
\* setting returns the same (N,3) array.
C6_Squeeze ==
    res.outcome = "returned" =>
        LET rT == Resqueezed(TRUE)
            rF == Resqueezed(FALSE)
            rD == Unsqueezed
        IN  /\ res = (IF "squeeze" \in DOMAIN kwargs
                         THEN (IF kwargs["squeeze"] THEN rT ELSE rF) ELSE rD)
            /\ rD.outcome = "returned" /\ rD.ret = rT.ret
            /\ rT.n = res.n /\ rF.n = res.n /\ rD.n = res.n
            /\ \A k \in InstanceKeys(kwargs) :
                  /\ Supplied(rT.kw, k) = Passed(k)
                  /\ Supplied(rF.kw, k) = Passed(k)
                  /\ Supplied(rD.kw, k) = Passed(k)
            /\ res.n = 1 => /\ rT.ret.shape = <<3>>
                            /\ rF.ret.shape = <<1, 3>>
                            /\ rT.ret.flat = rF.ret.flat
            /\ res.n > 1 => /\ rT.ret.shape = <<res.n, 3>>
                            /\ rT.ret = rF.ret

C6_Witness ==
    /\ res.outcome = "returned"
    /\ res.n = 1
    /\ "squeeze" \notin DOMAIN kwargs
    /\ res.ret.shape = <<3>>
    /\ ndim(kwargs["observer"]) = 2

\* C7: without 'position' getBH_level1 receives the origin in each of the N
\* rows, without 'orientation' the identity quaternion (0,0,0,1) in each of
\* the N rows; a position or orientation that is given is what it receives.
C7_Defaults ==
    res.called =>
        /\ "position" \notin DOMAIN kwargs =>
              RowsAre(Passed("position"), res.n, Arr(<<3>>, <<0, 0, 0>>))
        /\ "orientation" \notin DOMAIN kwargs =>
              RowsAre(Passed("orientation"), res.n, Arr(<<4>>, <<0, 0, 0, 1>>))
        /\ \A k \in {"position", "orientation"} \cap DOMAIN kwargs :
              IF ndim(Supplied(kwargs, k)) < 2
                  THEN RowsAre(Passed(k), res.n, Supplied(kwargs, k))
                  ELSE Passed(k) = Supplied(kwargs, k)

C7_Witness ==
    /\ res.outcome = "returned"
    /\ res.n = 2
    /\ "position" \notin DOMAIN kwargs
    /\ "orientation" \notin DOMAIN kwargs
    /\ Passed("position") = Arr(<<2, 3>>, <<0, 0, 0, 0, 0, 0>>)

-----------------------------------------------------------------------------
(* Collection.  Two program variables c1, c2 each name a Collection object; *)
(* refs[c] is the list object its _sources attribute refers to and heap[r]  *)
(* the content of list object r, so that two Collections sharing one list   *)
(* (copy.copy) are told from two Collections with equal lists.              *)

CollIds == {"c1", "c2"}

\* Magpylib objects: two sources and an object that is not a source
Objs == {"box", "sphere", "sensor"}

object_type(o) ==
    CASE o = "box"    -> "Box"
      [] o = "sphere" -> "Sphere"
      [] OTHER        -> "Sensor"

ListRefs == 1..(Cardinality(CollIds) + 1)

\* c.sources
sources(c) == heap[refs[c]]

\* the set of elements of a list
Elems(l) == {l[i] : i \in 1..Len(l)}

\* magpylib._lib.utility.format_obj_input: sources, Collections and lists
\* thereof flattened into one ordered list of objects
RECURSIVE format_obj_input(_)
format_obj_input(objects) ==
    IF objects = << >> THEN << >>
    ELSE (IF Head(objects) \in CollIds THEN sources(Head(objects))
                                       ELSE <<Head(objects)>>)
         \o format_obj_input(Tail(objects))

\* magpylib._lib.utility.check_duplicates: duplicates are eliminated, every
\* object stays where it first stands
RECURSIVE check_duplicates(_)
check_duplicates(src_list) ==
    IF src_list = << >> THEN << >>
    ELSE LET front == check_duplicates(SubSeq(src_list, 1, Len(src_list) - 1))
             x     == src_list[Len(src_list)]
         IN  IF x \in Elems(front) THEN front ELSE Append(front, x)

\* magpylib._lib.utility.only_allowed_src_types: the objects of a source
\* type, in their order
only_allowed_src_types(src_list) ==
    SelectSeq(src_list, LAMBDA o : object_type(o) \in SourceTypes)

\* sources.setter: the list stored in _sources
setter(srcs) == only_allowed_src_types(check_duplicates(format_obj_input(srcs)))

\* mutant of add: check_duplicates is not called
addNoDuplicateCheck(old, src_list) == old \o src_list

\* mutant of add: src_list + self._sources
addInFront(old, src_list) == check_duplicates(src_list \o old)

\* add: the list stored in _sources, from the old one and the formatted input
add(old, src_list) == check_duplicates(old \o src_list)

\* list.remove(x): the first x is taken out
list_remove(l, x) ==
    LET i == CHOOSE j \in 1..Len(l) : l[j] = x /\ \A k \in 1..(j - 1) : l[k] # x
    IN  SubSeq(l, 1, i - 1) \o SubSeq(l, i + 1, Len(l))

\* a list object no Collection refers to (a new list)
NewRef(rf) == CHOOSE r \in ListRefs : \A c \in CollIds : rf[c] # r

\* list objects are named up to renaming: the list of c1 is list 1, the
\* list of c2 is list 1 when c2 shares it and list 2 otherwise, and a list
\* nothing refers to any more is collected
CanonRefs(rf) ==
    [c \in CollIds |-> IF c = "c1" \/ rf["c2"] = rf["c1"] THEN 1 ELSE 2]

CanonHeap(rf, hp) ==
    [q \in ListRefs |->
        IF q = 1 THEN hp[rf["c1"]]
        ELSE IF q = 2 /\ rf["c2"] # rf["c1"] THEN hp[rf["c2"]]
        ELSE << >>]

\* what the last operation was: its name, the Collection it was called on,
\* the formatted objects it was given and the sources before it (kept for
\* add, + and remove, -), the object it returned ("" for none) and whether
\* it raised
Last(op, self, given, pre, ret, raised) ==
    [op |-> op, self |-> self, given |-> given, pre |-> pre, ret |-> ret,
     raised |-> raised]

\* the arguments of one operation: up to MaxArgs objects, or a Collection
ArgSeqs ==
    UNION {[1..k -> Objs] : k \in 0..MaxArgs} \cup {<<c>> : c \in CollIds}

\* self._sources = l: the attribute is bound to a new list object
Rebind(c, l) ==
    LET rf == [refs EXCEPT ![c] = NewRef(refs)]
        hp == [heap EXCEPT ![rf[c]] = l]
    IN  /\ refs' = CanonRefs(rf)
        /\ heap' = CanonHeap(rf, hp)

\* c.sources = args
SetSources ==
    \E c \in CollIds, args \in ArgSeqs :
        /\ Rebind(c, setter(args))
        /\ last' = Last("sources", c, << >>, << >>, "", FALSE)
        /\ UNCHANGED <<kwargs, res>>

\* c.add(*args)
Add ==
    \E c \in CollIds, args \in ArgSeqs :
        /\ Rebind(c, add(sources(c), format_obj_input(args)))
        /\ last' = Last("add", c, format_obj_input(args), sources(c), c, FALSE)
        /\ UNCHANGED <<kwargs, res>>

\* c + source
AddOp ==
    \E c \in CollIds, source \in Objs \cup CollIds :
        /\ Rebind(c, add(sources(c), format_obj_input(<<source>>)))
        /\ last' = Last("__add__", c, format_obj_input(<<source>>), sources(c), c, FALSE)
        /\ UNCHANGED <<kwargs, res>>

\* self._sources.remove(source): the list object is changed in place;
\* ValueError when source is not in it
RemoveFrom(op, c, source) ==
    IF source \in Elems(sources(c))
        THEN /\ heap' = [heap EXCEPT ![refs[c]] = list_remove(sources(c), source)]
             /\ last' = Last(op, c, <<source>>, sources(c), c, FALSE)
             /\ UNCHANGED <<refs, kwargs, res>>
        ELSE /\ last' = Last(op, c, <<source>>, sources(c), "", TRUE)
             /\ UNCHANGED <<refs, heap, kwargs, res>>

\* c.remove(source)
Remove == \E c \in CollIds, source \in Objs : RemoveFrom("remove", c, source)

\* c - source
SubOp == \E c \in CollIds, source \in Objs : RemoveFrom("__sub__", c, source)

\* d = c.copy(): copy.copy makes a new Collection whose _sources is the
\* list object of c
Copy ==
    \E c \in CollIds : \E d \in CollIds \ {c} :
        LET rf == [refs EXCEPT ![d] = refs[c]]
        IN  /\ refs' = CanonRefs(rf)
            /\ heap' = CanonHeap(rf, heap)
            /\ last' = Last("copy", c, << >>, << >>, d, FALSE)
            /\ UNCHANGED <<kwargs, res>>

\* c1 = Collection(*a1); c2 = Collection(*a2): __init__ hands its arguments
\* to the sources setter
InitColl ==
    \E a1, a2 \in UNION {[1..k -> Objs] : k \in 0..MaxArgs} :
        /\ kwargs = << >>
        /\ res = NoCall
        /\ refs = [c \in CollIds |-> IF c = "c1" THEN 1 ELSE 2]
        /\ heap = [q \in ListRefs |->
                      IF q = 1 THEN only_allowed_src_types(check_duplicates(a1))
                      ELSE IF q = 2 THEN only_allowed_src_types(check_duplicates(a2))
                      ELSE << >>]
        /\ last = Last("__init__", "c2", << >>, << >>, "c2", FALSE)

NextColl == SetSources \/ Add \/ AddOp \/ Remove \/ SubOp \/ Copy

SpecColl == InitColl /\ [][NextColl]_vars

-----------------------------------------------------------------------------
(* Properties of Collection *)

NoDuplicates(l) == \A i, j \in 1..Len(l) : i # j => l[i] # l[j]

\* C8: after any sequence of operations no Collection holds a source twice.
C8_NoDuplicateSources == \A c \in CollIds : NoDuplicates(sources(c))

C8_Witness ==
    /\ last.op = "add"
    /\ Len(last.pre) = 2
    /\ Len(last.given) = 2
    /\ Elems(last.given) \subseteq Elems(last.pre)
    /\ sources(last.self) = last.pre

\* C9: after any sequence of operations every element of a Collection's
\* sources is of a source type.
C9_OnlySourceTypes ==
    \A c \in CollIds : \A i \in 1..Len(sources(c)) :
        object_type(sources(c)[i]) \in SourceTypes

\* the objects of given that are not in pre, each once, in the order given
RECURSIVE NewInOrder(_, _)
NewInOrder(pre, given) ==
    IF given = << >> THEN << >>
    ELSE IF Head(given) \in Elems(pre)
            THEN NewInOrder(pre, Tail(given))
            ELSE <<Head(given)>> \o NewInOrder(Append(pre, Head(given)), Tail(given))

C11_CopyIndependent ==
    [][\A c \in CollIds : \A d \in CollIds \ {c} :
          (last'.self = c /\ last'.op \in {"add", "__add__", "remove", "__sub__"})
              => sources(d)' = sources(d)]_vars

====
